---- MODULE Spec2Model ----
(***************************************************************************)
(* Model of vyper/context/types/function.py: the StateMutability           *)
(* enumeration, the three constructors of ContractFunctionType             *)
(* (from_abi, from_FunctionDef, from_AnnAssign) and the call validator     *)
(* fetch_call_return.                                                      *)
(*                                                                         *)
(* from_FunctionDef is modelled loop iteration by loop iteration: the      *)
(* decorators and the parameters of the declaration are drawn as the loops *)
(* read them, left to right.  The other operations are one action each.    *)
(* An operation leaves its input, locals and outcome in the state until    *)
(* Return; fn is the one function type whose life the model follows.       *)
(***************************************************************************)
EXTENDS Integers, Sequences, FiniteSets, TLC

\* ------------------------------------------------------------------ bounds
MaxDecorators == 3
MaxArgs == 2
MaxInputs == 2
MaxOutputs == 2
MaxCallArgs == 2
MaxKeywords == 1

\* ------------------------------------------------------- values and helpers
\* Python's None, wherever an optional string or type is held.
NoneVal == "<None>"

\* A Python int arg_count.
IntCount(n) == [kind |-> "int", lo |-> n, hi |-> n]

\* A Python (min, max) tuple arg_count.
TupleCount(lo, hi) == [kind |-> "tuple", lo |-> lo, hi |-> hi]

\* A type definition object: the type's name, its data location and whether
\* it is immutable.
TypeDefinition(t, location, is_immutable) ==
    [kind |-> "TypeDefinition", type |-> t, location |-> location,
     is_immutable |-> is_immutable]

\* A tuple type definition built from member definitions.
TupleDefinition(members) ==
    [kind |-> "TupleDefinition", type |-> members, location |-> "UNSET",
     is_immutable |-> FALSE]

\* None where a type definition is optional (return_type).
NoneType ==
    [kind |-> "NoneType", type |-> NoneVal, location |-> "UNSET",
     is_immutable |-> FALSE]

\* An expression node; the model keeps the two properties its consumers read
\* from it: the type it evaluates to and whether it is a compile-time constant.
Expr(t, constant) == [kind |-> "Expr", type |-> t, constant |-> constant]

\* None where an expression node is optional (a parameter without default).
NoExpr == [kind |-> "None", type |-> NoneVal, constant |-> FALSE]

\* A bare Python string handed where a node is expected.
StrToken(s) == [kind |-> "str", type |-> s, constant |-> FALSE]

\* The type names the type resolvers know; any other name is unknown.
KnownTypes == {"uint256", "bool"}

\* The empty dict.
EmptyDict == [k \in {} |-> NoneVal]

\* dict[key] = val for a plain dict (keyword arguments of the constructor).
DictSet(d, key, val) ==
    [k \in DOMAIN d \cup {key} |-> IF k = key THEN val ELSE d[k]]

\* Keys of an OrderedDict, in insertion order: list(arguments).
Keys(od) == [i \in 1..Len(od) |-> od[i].key]

\* Values of an OrderedDict, in insertion order: arguments.values().
Values(od) == [i \in 1..Len(od) |-> od[i].value]

\* key in od
HasKey(od, key) == \E i \in 1..Len(od) : od[i].key = key

\* od[key] = value on an OrderedDict: an existing key keeps its position and
\* takes the new value, a new key is appended.
OrderedDictSet(od, key, value) ==
    IF HasKey(od, key)
    THEN [i \in 1..Len(od) |->
            IF od[i].key = key THEN [key |-> key, value |-> value] ELSE od[i]]
    ELSE Append(od, [key |-> key, value |-> value])

\* seq[start:], with start counted from 0 as in Python.
SliceFrom(seq, start) ==
    IF start >= Len(seq) THEN <<>> ELSE SubSeq(seq, start + 1, Len(seq))

\* All sequences over S of length at most n.
SeqsUpTo(S, n) == UNION {[1..m -> S] : m \in 0..n}

\* ---------------------------------------------------------- enumerations
FunctionVisibility == {"public", "private"}

StateMutability == {"pure", "view", "nonpayable", "payable"}

\* StringEnum.is_valid_value(raw): membership, without raising.
IsValidValue(enum, raw) == raw \in enum

\* The enumeration's constructor cls(raw): the member with that tag, or a
\* ValueError when raw is no member tag.
EnumCall(enum, raw) ==
    IF raw \in enum
    THEN [err |-> "none", value |-> raw]
    ELSE [err |-> "ValueError", value |-> NoneVal]

\* from_abi with the payable field consulted before stateMutability.
StateMutabilityFromAbiPayableFirst(abi_dict) ==
    IF "payable" \in DOMAIN abi_dict /\ abi_dict["payable"]
    THEN [err |-> "none", value |-> "payable"]
    ELSE IF "stateMutability" \in DOMAIN abi_dict
    THEN EnumCall(StateMutability, abi_dict["stateMutability"])
    ELSE IF "constant" \in DOMAIN abi_dict /\ abi_dict["constant"]
    THEN [err |-> "none", value |-> "view"]
    ELSE [err |-> "none", value |-> "nonpayable"]

\* from_abi reading abi_dict["constant"] without testing for the key.
StateMutabilityFromAbiUncheckedKey(abi_dict) ==
    IF "stateMutability" \in DOMAIN abi_dict
    THEN EnumCall(StateMutability, abi_dict["stateMutability"])
    ELSE IF "payable" \in DOMAIN abi_dict /\ abi_dict["payable"]
    THEN [err |-> "none", value |-> "payable"]
    ELSE IF "constant" \notin DOMAIN abi_dict
    THEN [err |-> "KeyError", value |-> NoneVal]
    ELSE IF abi_dict["constant"]
    THEN [err |-> "none", value |-> "view"]
    ELSE [err |-> "none", value |-> "nonpayable"]

\* StateMutability.from_abi(abi_dict).  The record's payable and constant
\* fields, when present, hold booleans.
StateMutabilityFromAbi(abi_dict) ==
    IF "stateMutability" \in DOMAIN abi_dict
    THEN EnumCall(StateMutability, abi_dict["stateMutability"])
    ELSE IF "payable" \in DOMAIN abi_dict /\ abi_dict["payable"]
    THEN [err |-> "none", value |-> "payable"]
    ELSE IF "constant" \in DOMAIN abi_dict /\ abi_dict["constant"]
    THEN [err |-> "none", value |-> "view"]
    ELSE [err |-> "none", value |-> "nonpayable"]

\* ------------------------------------------------------- collaborators
\* get_type_from_abi(item, location, is_immutable)
GetTypeFromAbi(item, location, is_immutable) ==
    IF item.type \in KnownTypes
    THEN [err |-> "none", value |-> TypeDefinition(item.type, location, is_immutable)]
    ELSE [err |-> "UnknownType", value |-> NoneType]

\* get_type_from_annotation(annotation, location, is_immutable), the
\* annotation being a type name.
GetTypeFromAnnotation(annotation, location, is_immutable) ==
    IF annotation \in KnownTypes
    THEN [err |-> "none", value |-> TypeDefinition(annotation, location, is_immutable)]
    ELSE [err |-> "UnknownType", value |-> NoneType]

\* check_constant(value)
CheckConstant(value) == value.constant

\* What validate_expected_type(node, expected_type) does with a node and an
\* expected type: nothing when the expression has the expected type, a
\* type-mismatch error otherwise.  Handed anything else (a bare string for
\* the node, a node for the type) its outcome is not determined here: oracle.
ValidateExpectedType(node, expected_type, oracle) ==
    IF node.kind = "Expr" /\ expected_type.kind = "TypeDefinition"
    THEN IF node.type = expected_type.type THEN "none" ELSE "TypeMismatch"
    ELSE oracle

\* The outcomes of validate_expected_type on arguments it is not defined for.
OracleOutcomes == {"none", "TypeMismatch"}

\* validate_call_args(node, arg_count, kwargs): the positional count is
\* exactly N or within (min, max); every keyword name is an accepted one; no
\* argument is given both positionally and by keyword.
ValidateCallArgs(node, arg_count, kwarg_keys) ==
    IF Len(node.args) < arg_count.lo \/ Len(node.args) > arg_count.hi
    THEN "ArgumentException"
    ELSE IF \E j \in 1..Len(node.keywords) :
                \A i \in 1..Len(kwarg_keys) : kwarg_keys[i] # node.keywords[j].arg
    THEN "ArgumentException"
    ELSE IF /\ arg_count.kind = "tuple"
            /\ \E j \in 1..Len(node.keywords) : \E i \in 1..Len(kwarg_keys) :
                   /\ kwarg_keys[i] = node.keywords[j].arg
                   /\ i - 1 < Len(node.args) - arg_count.lo
    THEN "ArgumentException"
    ELSE "none"

\* The names already visible in the enclosing namespace: get_namespace().
Namespace == {"self", "msg"}

\* The members of the contract's storage scope: namespace["self"].members.
SelfMembers == {"owner"}

\* -------------------------------------------------- ContractFunctionType
\* No function type: the value of fn while none has been constructed.
NoFunction ==
    [name |-> NoneVal, arguments |-> <<>>, arg_count |-> IntCount(0),
     return_type |-> NoneVal, kwarg_keys |-> <<>>, visibility |-> NoneVal,
     mutability |-> NoneVal, nonreentrant |-> NoneVal]

\* __init__ slicing the keyword keys from arg_count[1] instead of arg_count[0].
ContractFunctionTypeSliceFromMax(name, arguments, arg_count, return_type, kwargs) ==
    [name |-> name, arguments |-> arguments, arg_count |-> arg_count,
     return_type |-> return_type,
     kwarg_keys |-> IF arg_count.kind = "tuple"
                    THEN SliceFrom(Keys(arguments), arg_count.hi)
                    ELSE <<>>,
     visibility |-> kwargs["function_visibility"],
     mutability |-> kwargs["state_mutability"],
     nonreentrant |-> IF "nonreentrant" \in DOMAIN kwargs
                      THEN kwargs["nonreentrant"] ELSE NoneVal]

\* ContractFunctionType.__init__; kwargs holds the keyword arguments
\* function_visibility, state_mutability and, optionally, nonreentrant
\* (None when not given).
ContractFunctionType(name, arguments, arg_count, return_type, kwargs) ==
    [name |-> name, arguments |-> arguments, arg_count |-> arg_count,
     return_type |-> return_type,
     kwarg_keys |-> IF arg_count.kind = "tuple"
                    THEN SliceFrom(Keys(arguments), arg_count.lo)
                    ELSE <<>>,
     visibility |-> kwargs["function_visibility"],
     mutability |-> kwargs["state_mutability"],
     nonreentrant |-> IF "nonreentrant" \in DOMAIN kwargs
                      THEN kwargs["nonreentrant"] ELSE NoneVal]

\* The keyword arguments function_visibility and state_mutability as a dict.
Modifiers(function_visibility, state_mutability) ==
    DictSet(DictSet(EmptyDict, "function_visibility", function_visibility),
            "state_mutability", state_mutability)

\* from_abi's loop over abi["inputs"], from item i on.
RECURSIVE AbiArguments(_, _, _)
AbiArguments(inputs, i, arguments) ==
    IF i > Len(inputs)
    THEN [err |-> "none", value |-> arguments]
    ELSE LET t == GetTypeFromAbi(inputs[i], "CALLDATA", TRUE)
         IN  IF t.err # "none"
             THEN [err |-> t.err, value |-> arguments]
             ELSE AbiArguments(inputs, i + 1,
                               OrderedDictSet(arguments, inputs[i].name, t.value))

\* from_abi's return type, from abi["outputs"].
AbiReturnType(outputs) ==
    LET types == [i \in 1..Len(outputs) |-> GetTypeFromAbi(outputs[i], "CALLDATA", TRUE)]
    IN  IF \E i \in 1..Len(outputs) : types[i].err # "none"
        THEN [err |-> "UnknownType", value |-> NoneType]
        ELSE IF Len(outputs) = 1
        THEN [err |-> "none", value |-> types[1].value]
        ELSE IF Len(outputs) > 1
        THEN [err |-> "none",
              value |-> TupleDefinition([i \in 1..Len(outputs) |-> types[i].value])]
        ELSE [err |-> "none", value |-> NoneType]

\* from_abi passing a (0, n) pair as the argument count.
FromAbiTupleCount(abi) ==
    LET arguments == AbiArguments(abi["inputs"], 1, <<>>)
        return_type == AbiReturnType(abi["outputs"])
        state_mutability == StateMutabilityFromAbi(abi)
    IN  IF arguments.err # "none" THEN [err |-> arguments.err, fn |-> NoFunction]
        ELSE IF return_type.err # "none" THEN [err |-> return_type.err, fn |-> NoFunction]
        ELSE IF state_mutability.err # "none"
        THEN [err |-> state_mutability.err, fn |-> NoFunction]
        ELSE [err |-> "none",
              fn |-> ContractFunctionType(abi["name"], arguments.value,
                        TupleCount(0, Len(arguments.value)), return_type.value,
                        Modifiers("public", state_mutability.value))]

\* ContractFunctionType.from_abi(abi)
FromAbi(abi) ==
    LET arguments == AbiArguments(abi["inputs"], 1, <<>>)
        return_type == AbiReturnType(abi["outputs"])
        state_mutability == StateMutabilityFromAbi(abi)
    IN  IF arguments.err # "none" THEN [err |-> arguments.err, fn |-> NoFunction]
        ELSE IF return_type.err # "none" THEN [err |-> return_type.err, fn |-> NoFunction]
        ELSE IF state_mutability.err # "none"
        THEN [err |-> state_mutability.err, fn |-> NoFunction]
        ELSE [err |-> "none",
              fn |-> ContractFunctionType(abi["name"], arguments.value,
                        IntCount(Len(arguments.value)), return_type.value,
                        Modifiers("public", state_mutability.value))]

\* f"arg{n}"
ArgName(n) == "arg" \o ToString(n)

\* from_AnnAssign's loop over the argument types of the signature, from i on.
RECURSIVE AccessorArguments(_, _, _)
AccessorArguments(types, i, args_dict) ==
    IF i > Len(types)
    THEN args_dict
    ELSE AccessorArguments(types, i + 1,
                           OrderedDictSet(args_dict, ArgName(Len(args_dict)), types[i]))

\* ContractFunctionType.from_AnnAssign(node).  node.type stands for the
\* storage type the annotation's argument names: whether the resolver knows
\* it, and what its get_signature() returns.
FromAnnAssign(node) ==
    IF node.annotation # "Call"
    THEN [err |-> "CompilerPanic", fn |-> NoFunction]
    ELSE IF ~node.type.known
    THEN [err |-> "UnknownType", fn |-> NoFunction]
    ELSE [err |-> "none",
          fn |-> ContractFunctionType(node.target,
                    AccessorArguments(node.type.arguments, 1, <<>>),
                    IntCount(Len(node.type.arguments)),
                    node.type.return_type,
                    Modifiers("public", "nonpayable"))]

\* ------------------------------------------------------ from_FunctionDef
\* Optional[bool] parameters: None, True or False.
OptionalBool == {NoneVal, "True", "False"}

\* The keyword arguments set from the override flags, before any decorator.
InitialKwargs(is_immutable, is_public) ==
    LET k1 == IF is_immutable # NoneVal
              THEN DictSet(EmptyDict, "state_mutability",
                           IF is_immutable = "True" THEN "view" ELSE "nonpayable")
              ELSE EmptyDict
    IN  IF is_public # NoneVal
        THEN DictSet(k1, "function_visibility",
                     IF is_public = "True" THEN "public" ELSE "private")
        ELSE k1

\* The decorator loop's body with the already-set checks left out.
ApplyDecoratorOverwriting(kwargs, decorator) ==
    IF decorator.kind = "Call"
    THEN IF decorator.id # "nonreentrant"
         THEN [err |-> "StructureException(Decorator is not callable)",
               kwargs |-> kwargs, warned |-> FALSE]
         ELSE IF Len(decorator.args) # 1 \/ decorator.args[1].kind # "Str"
         THEN [err |-> "StructureException(@nonreentrant name must be given as a single string literal)",
               kwargs |-> kwargs, warned |-> FALSE]
         ELSE [err |-> "none",
               kwargs |-> DictSet(kwargs, "nonreentrant", decorator.args[1].value),
               warned |-> FALSE]
    ELSE IF decorator.kind = "Name"
    THEN IF IsValidValue(FunctionVisibility, decorator.id)
         THEN [err |-> "none",
               kwargs |-> DictSet(kwargs, "function_visibility",
                                  EnumCall(FunctionVisibility, decorator.id).value),
               warned |-> FALSE]
         ELSE IF IsValidValue(StateMutability, decorator.id)
         THEN [err |-> "none",
               kwargs |-> DictSet(kwargs, "state_mutability",
                                  EnumCall(StateMutability, decorator.id).value),
               warned |-> FALSE]
         ELSE [err |-> "FunctionDeclarationException(Unknown decorator)",
               kwargs |-> kwargs, warned |-> decorator.id = "constant"]
    ELSE [err |-> "StructureException(Bad decorator syntax)",
          kwargs |-> kwargs, warned |-> FALSE]

\* The body of the loop over node.decorator_list, for one decorator.
ApplyDecorator(kwargs, decorator) ==
    IF decorator.kind = "Call"
    THEN IF "nonreentrant" \in DOMAIN kwargs
         THEN [err |-> "StructureException(nonreentrant decorator is already set)",
               kwargs |-> kwargs, warned |-> FALSE]
         ELSE IF decorator.id # "nonreentrant"
         THEN [err |-> "StructureException(Decorator is not callable)",
               kwargs |-> kwargs, warned |-> FALSE]
         ELSE IF Len(decorator.args) # 1 \/ decorator.args[1].kind # "Str"
         THEN [err |-> "StructureException(@nonreentrant name must be given as a single string literal)",
               kwargs |-> kwargs, warned |-> FALSE]
         ELSE [err |-> "none",
               kwargs |-> DictSet(kwargs, "nonreentrant", decorator.args[1].value),
               warned |-> FALSE]
    ELSE IF decorator.kind = "Name"
    THEN IF IsValidValue(FunctionVisibility, decorator.id)
         THEN IF "function_visibility" \in DOMAIN kwargs
              THEN [err |-> "FunctionDeclarationException(Visibility is already set)",
                    kwargs |-> kwargs, warned |-> FALSE]
              ELSE [err |-> "none",
                    kwargs |-> DictSet(kwargs, "function_visibility",
                                       EnumCall(FunctionVisibility, decorator.id).value),
                    warned |-> FALSE]
         ELSE IF IsValidValue(StateMutability, decorator.id)
         THEN IF "state_mutability" \in DOMAIN kwargs
              THEN [err |-> "FunctionDeclarationException(Mutability is already set)",
                    kwargs |-> kwargs, warned |-> FALSE]
              ELSE [err |-> "none",
                    kwargs |-> DictSet(kwargs, "state_mutability",
                                       EnumCall(StateMutability, decorator.id).value),
                    warned |-> FALSE]
         ELSE [err |-> "FunctionDeclarationException(Unknown decorator)",
               kwargs |-> kwargs, warned |-> decorator.id = "constant"]
    ELSE [err |-> "StructureException(Bad decorator syntax)",
          kwargs |-> kwargs, warned |-> FALSE]

\* The checks after the decorator loop with private as a default visibility.
ResolveModifiersDefaultPrivate(kwargs) ==
    LET k1 == IF "function_visibility" \notin DOMAIN kwargs
              THEN DictSet(kwargs, "function_visibility", "private")
              ELSE kwargs
    IN  IF "state_mutability" \notin DOMAIN k1
        THEN [err |-> "none", kwargs |-> DictSet(k1, "state_mutability", "nonpayable")]
        ELSE [err |-> "none", kwargs |-> k1]

\* The checks after the decorator loop: visibility must be set, mutability
\* defaults to nonpayable.
ResolveModifiers(kwargs) ==
    IF "function_visibility" \notin DOMAIN kwargs
    THEN [err |-> "FunctionDeclarationException(Visibility must be set)",
          kwargs |-> kwargs]
    ELSE IF "state_mutability" \notin DOMAIN kwargs
    THEN [err |-> "none",
          kwargs |-> DictSet(kwargs, "state_mutability",
                             EnumCall(StateMutability, "nonpayable").value)]
    ELSE [err |-> "none", kwargs |-> kwargs]

\* arg_count from len(node.args.args) and len(node.args.defaults).
ArgCount(n_args, n_defaults) ==
    IF n_defaults # 0
    THEN TupleCount(n_args - n_defaults, n_args)
    ELSE IntCount(n_args)

\* The default paired with parameter i (counted from 1) by
\* zip(node.args.args, defaults): None for the parameters before the
\* defaulted ones, and for all of them without include_defaults.
HasDefault(i, n_args, n_defaults, include_defaults) ==
    include_defaults /\ i > n_args - n_defaults

\* The parameter loop's body without the reserved-name and duplicate checks.
ProcessArgUnchecked(arguments, arg, value) ==
    IF arg.arg \in SelfMembers
    THEN [err |-> "NamespaceCollision", arguments |-> arguments]
    ELSE IF arg.arg \in Namespace
    THEN [err |-> "NamespaceCollision", arguments |-> arguments]
    ELSE IF arg.annotation = NoneVal
    THEN [err |-> "ArgumentException(missing a type)", arguments |-> arguments]
    ELSE LET type_definition == GetTypeFromAnnotation(arg.annotation, "CALLDATA", TRUE)
         IN  IF type_definition.err # "none"
             THEN [err |-> type_definition.err, arguments |-> arguments]
             ELSE IF value.kind # "None" /\ ~CheckConstant(value)
             THEN [err |-> "StateAccessViolation", arguments |-> arguments]
             ELSE IF /\ value.kind # "None"
                     /\ ValidateExpectedType(value, type_definition.value, "none") # "none"
             THEN [err |-> ValidateExpectedType(value, type_definition.value, "none"),
                   arguments |-> arguments]
             ELSE [err |-> "none",
                   arguments |-> OrderedDictSet(arguments, arg.arg, type_definition.value)]

\* The body of the loop over the parameters, for one parameter and the
\* default paired with it.
ProcessArg(arguments, arg, value) ==
    IF arg.arg \in {"gas", "value"}
    THEN [err |-> "ArgumentException(Cannot use as a variable name)",
          arguments |-> arguments]
    ELSE IF HasKey(arguments, arg.arg)
    THEN [err |-> "ArgumentException(multiple inputs)", arguments |-> arguments]
    ELSE IF arg.arg \in SelfMembers
    THEN [err |-> "NamespaceCollision", arguments |-> arguments]
    ELSE IF arg.arg \in Namespace
    THEN [err |-> "NamespaceCollision", arguments |-> arguments]
    ELSE IF arg.annotation = NoneVal
    THEN [err |-> "ArgumentException(missing a type)", arguments |-> arguments]
    ELSE LET type_definition == GetTypeFromAnnotation(arg.annotation, "CALLDATA", TRUE)
         IN  IF type_definition.err # "none"
             THEN [err |-> type_definition.err, arguments |-> arguments]
             ELSE IF value.kind # "None" /\ ~CheckConstant(value)
             THEN [err |-> "StateAccessViolation", arguments |-> arguments]
             ELSE IF /\ value.kind # "None"
                     /\ ValidateExpectedType(value, type_definition.value, "none") # "none"
             THEN [err |-> ValidateExpectedType(value, type_definition.value, "none"),
                   arguments |-> arguments]
             ELSE [err |-> "none",
                   arguments |-> OrderedDictSet(arguments, arg.arg, type_definition.value)]

\* The return type from node.returns: absent, one annotation, a tuple of
\* annotations, or a node of another shape.
ReturnType(returns) ==
    IF returns.kind = "None"
    THEN [err |-> "none", value |-> NoneType]
    ELSE IF returns.kind \in {"Name", "Call", "Subscript"}
    THEN GetTypeFromAnnotation(returns.elements[1], "MEMORY", FALSE)
    ELSE IF returns.kind = "Tuple"
    THEN LET types == [i \in 1..Len(returns.elements) |->
                          GetTypeFromAnnotation(returns.elements[i], "MEMORY", FALSE)]
         IN  IF \E i \in 1..Len(types) : types[i].err # "none"
             THEN [err |-> "UnknownType", value |-> NoneType]
             ELSE [err |-> "none",
                   value |-> TupleDefinition([i \in 1..Len(types) |-> types[i].value])]
    ELSE [err |-> "InvalidType", value |-> NoneType]

\* ------------------------------------------------------ fetch_call_return
\* Uint256Definition()
Uint256Definition == TypeDefinition("uint256", "UNSET", FALSE)

\* node.get("func.value.id") == "self"
IsSelfCall(node) == node.receiver = "self"

\* The keyword keys extended on self.kwarg_keys itself, without the copy.
ExtendKwargKeysInPlace(self, node) ==
    LET kwarg_keys == IF ~IsSelfCall(node)
                      THEN self.kwarg_keys \o <<"gas", "value">>
                      ELSE self.kwarg_keys
    IN  [self |-> [self EXCEPT !.kwarg_keys = kwarg_keys], kwarg_keys |-> kwarg_keys]

\* The accepted keyword keys: a copy of self.kwarg_keys, with gas and value
\* appended for a call that is not through self.  Returns the list and the
\* function type as the statements leave it.
ExtendKwargKeys(self, node) ==
    LET kwarg_keys == IF ~IsSelfCall(node)
                      THEN self.kwarg_keys \o <<"gas", "value">>
                      ELSE self.kwarg_keys
    IN  [self |-> self, kwarg_keys |-> kwarg_keys]

\* The validate_expected_type calls of the loop over the positional
\* arguments: zip(node.args, self.arguments.values()).
PositionalValidations(self, node) ==
    LET n == IF Len(node.args) < Len(self.arguments)
             THEN Len(node.args) ELSE Len(self.arguments)
    IN  [i \in 1..n |-> [node |-> node.args[i], expected |-> Values(self.arguments)[i]]]

\* The validate_expected_type call of the loop over node.keywords, for one
\* keyword: its two arguments as the code passes them.
KeywordValidation(kwarg) ==
    IF kwarg.arg \in {"gas", "value"}
    THEN [node |-> kwarg.value, expected |-> Uint256Definition]
    ELSE [node |-> StrToken(kwarg.arg), expected |-> kwarg.value]

\* The outcomes of a sequence of validate_expected_type calls.
Outcomes(calls, oracle) ==
    [i \in 1..Len(calls) |-> ValidateExpectedType(calls[i].node, calls[i].expected, oracle)]

\* The calls made until the first one that fails, and its error.
RunValidations(calls, oracle) ==
    LET out == Outcomes(calls, oracle)
        failing == {i \in 1..Len(calls) : out[i] # "none"}
    IN  IF failing = {}
        THEN [err |-> "none", validated |-> calls]
        ELSE LET f == CHOOSE i \in failing : \A j \in failing : i <= j
             IN  [err |-> out[f], validated |-> SubSeq(calls, 1, f)]

\* The validate_call_args call not made.
NoShapeCheck == [called |-> FALSE, arg_count |-> IntCount(0), kwarg_keys |-> <<>>]

\* fetch_call_return raising no call-violation for a public function.
FetchCallReturnNoVisibilityCheck(self, node, oracle) ==
    LET keys == ExtendKwargKeys(self, node)
        shape == [called |-> TRUE, arg_count |-> self.arg_count,
                  kwarg_keys |-> keys.kwarg_keys]
        shape_err == ValidateCallArgs(node, self.arg_count, keys.kwarg_keys)
        calls == PositionalValidations(self, node)
                   \o [j \in 1..Len(node.keywords) |-> KeywordValidation(node.keywords[j])]
        run == RunValidations(calls, oracle)
    IN  IF shape_err # "none"
        THEN [self |-> keys.self, err |-> shape_err, shape_check |-> shape,
              validated |-> <<>>, ret |-> NoneType]
        ELSE IF run.err # "none"
        THEN [self |-> keys.self, err |-> run.err, shape_check |-> shape,
              validated |-> run.validated, ret |-> NoneType]
        ELSE [self |-> keys.self, err |-> "none", shape_check |-> shape,
              validated |-> run.validated, ret |-> self.return_type]

\* fetch_call_return(self, node): the function type as the call leaves it,
\* the error raised (or none), the arguments validate_call_args was called
\* with, the validate_expected_type calls made, and the value returned.
FetchCallReturn(self, node, oracle) ==
    IF IsSelfCall(node) /\ self.visibility = "public"
    THEN [self |-> self, err |-> "CallViolation", shape_check |-> NoShapeCheck,
          validated |-> <<>>, ret |-> NoneType]
    ELSE
    LET keys == ExtendKwargKeys(self, node)
        shape == [called |-> TRUE, arg_count |-> self.arg_count,
                  kwarg_keys |-> keys.kwarg_keys]
        shape_err == ValidateCallArgs(node, self.arg_count, keys.kwarg_keys)
        calls == PositionalValidations(self, node)
                   \o [j \in 1..Len(node.keywords) |-> KeywordValidation(node.keywords[j])]
        run == RunValidations(calls, oracle)
    IN  IF shape_err # "none"
        THEN [self |-> keys.self, err |-> shape_err, shape_check |-> shape,
              validated |-> <<>>, ret |-> NoneType]
        ELSE IF run.err # "none"
        THEN [self |-> keys.self, err |-> run.err, shape_check |-> shape,
              validated |-> run.validated, ret |-> NoneType]
        ELSE [self |-> keys.self, err |-> "none", shape_check |-> shape,
              validated |-> run.validated, ret |-> self.return_type]

\* ------------------------------------------------------------- inputs
\* Decorator nodes: bare names, calls (func.id and arguments), and one node
\* of another shape.
NameDecorator(id) == [kind |-> "Name", id |-> id, args |-> <<>>]

CallDecorator(id, args) == [kind |-> "Call", id |-> id, args |-> args]

StrLiteral(v) == [kind |-> "Str", value |-> v]

IntLiteral(v) == [kind |-> "Int", value |-> v]

Decorators ==
    {NameDecorator(id) : id \in FunctionVisibility \cup StateMutability \cup {"constant", "foo"}}
    \cup {CallDecorator("nonreentrant", <<StrLiteral("lock")>>),
          CallDecorator("nonreentrant", <<>>),
          CallDecorator("nonreentrant", <<IntLiteral("1")>>),
          CallDecorator("foo", <<StrLiteral("lock")>>),
          [kind |-> "Attribute", id |-> "foo", args |-> <<>>]}

\* Parameter nodes: a name and an annotation (a type name, or None).
ArgNodes ==
    [arg : {"a", "b", "gas", "value", "owner", "msg"},
     annotation : {NoneVal, "uint256", "frob"}]

\* Default value expressions.
DefaultExprs == {Expr("uint256", TRUE), Expr("bool", TRUE), Expr("uint256", FALSE)}

\* Return annotations.
Returns ==
    {[kind |-> "None", elements |-> <<>>],
     [kind |-> "Name", elements |-> <<"uint256">>],
     [kind |-> "Name", elements |-> <<"frob">>],
     [kind |-> "Tuple", elements |-> <<"uint256", "bool">>],
     [kind |-> "Constant", elements |-> <<>>]}

\* The stateMutability, payable and constant fields an ABI record may have.
MutabilityFields ==
    {sm @@ p @@ c :
        sm \in {EmptyDict} \cup {("stateMutability" :> v) : v \in StateMutability \cup {"bogus"}},
        p \in {EmptyDict} \cup {("payable" :> v) : v \in BOOLEAN},
        c \in {EmptyDict} \cup {("constant" :> v) : v \in BOOLEAN}}

\* ABI records of functions.
AbiRecords ==
    {("name" :> "foo") @@ ("inputs" :> inputs) @@ ("outputs" :> outputs) @@ fields :
        inputs \in SeqsUpTo([name : {"a", "b"}, type : {"uint256", "frob"}], MaxInputs),
        outputs \in SeqsUpTo([type : {"uint256", "bool"}], MaxOutputs),
        fields \in MutabilityFields}

\* Public variable declarations: the annotation's shape and the storage type
\* it names.
AnnAssignNodes ==
    [target : {"foo"},
     annotation : {"Call", "Name"},
     type : [known : BOOLEAN,
             arguments : SeqsUpTo({TypeDefinition(t, "STORAGE", FALSE) : t \in KnownTypes},
                                  MaxInputs),
             return_type : {TypeDefinition(t, "STORAGE", FALSE) : t \in KnownTypes}]]

\* Call nodes: the receiver (func.value.id), the positional arguments and the
\* keywords.
CallNodes ==
    [receiver : {"self", "token"},
     args : SeqsUpTo({Expr(t, TRUE) : t \in KnownTypes}, MaxCallArgs),
     keywords : SeqsUpTo([arg : {"b", "gas", "value"},
                          value : {Expr(t, TRUE) : t \in KnownTypes}], MaxKeywords)]

\* -------------------------------------------------------------- state
VARIABLES
    pc,           \* "idle", the loop from_FunctionDef is in, or "returned"
    op,           \* the operation last started
    node,         \* its input; for from_FunctionDef, the part read so far
    kwargs,       \* from_FunctionDef: the constructor's keyword arguments
    arg_count,    \* from_FunctionDef: the argument count
    arguments,    \* from_FunctionDef: the arguments collected
    fn,           \* the function type constructed, or NoFunction
    origin,       \* the constructor that built fn
    err,          \* the exception the operation raised, or "none"
    warned,       \* whether the operation emitted a deprecation warning
    shape_check,  \* fetch_call_return: the validate_call_args call
    validated,    \* fetch_call_return: the validate_expected_type calls
    ret,          \* fetch_call_return: the type returned
    mut           \* StateMutability.from_abi: the value returned

vars ==
    <<pc, op, node, kwargs, arg_count, arguments, fn, origin, err, warned,
      shape_check, validated, ret, mut>>

NoNode == [kind |-> "None"]

Init ==
    /\ pc = "idle"
    /\ op = "none"
    /\ node = NoNode
    /\ kwargs = EmptyDict
    /\ arg_count = IntCount(0)
    /\ arguments = <<>>
    /\ fn = NoFunction
    /\ origin = "none"
    /\ err = "none"
    /\ warned = FALSE
    /\ shape_check = NoShapeCheck
    /\ validated = <<>>
    /\ ret = NoneType
    /\ mut = NoneVal

\* What an operation that is not a call leaves of the last call's record.
NoCallRecord ==
    /\ shape_check' = NoShapeCheck
    /\ validated' = <<>>
    /\ ret' = NoneType
    /\ mut' = NoneVal

\* The locals of from_FunctionDef outside of it.
NoLocals ==
    /\ kwargs' = EmptyDict
    /\ arg_count' = IntCount(0)
    /\ arguments' = <<>>

\* StateMutability.from_abi(abi_dict) on any record.
StateMutabilityFromAbiCall ==
    /\ pc = "idle"
    /\ \E abi_dict \in MutabilityFields :
         LET r == StateMutabilityFromAbi(abi_dict)
         IN  /\ op' = "StateMutability.from_abi"
             /\ node' = abi_dict
             /\ err' = r.err
             /\ mut' = r.value
    /\ warned' = FALSE
    /\ shape_check' = NoShapeCheck
    /\ validated' = <<>>
    /\ ret' = NoneType
    /\ NoLocals
    /\ pc' = "returned"
    /\ UNCHANGED <<fn, origin>>

\* ContractFunctionType.from_abi(abi)
FromAbiCall ==
    /\ pc = "idle"
    /\ fn = NoFunction
    /\ \E abi \in AbiRecords :
         LET r == FromAbi(abi)
         IN  /\ op' = "from_abi"
             /\ node' = abi
             /\ err' = r.err
             /\ fn' = r.fn
             /\ origin' = IF r.err = "none" THEN "from_abi" ELSE "none"
    /\ warned' = FALSE
    /\ NoCallRecord
    /\ NoLocals
    /\ pc' = "returned"

\* ContractFunctionType.from_AnnAssign(node)
FromAnnAssignCall ==
    /\ pc = "idle"
    /\ fn = NoFunction
    /\ \E n \in AnnAssignNodes :
         LET r == FromAnnAssign(n)
         IN  /\ op' = "from_AnnAssign"
             /\ node' = n
             /\ err' = r.err
             /\ fn' = r.fn
             /\ origin' = IF r.err = "none" THEN "from_AnnAssign" ELSE "none"
    /\ warned' = FALSE
    /\ NoCallRecord
    /\ NoLocals
    /\ pc' = "returned"

\* fetch_call_return(node) on the function type constructed.
FetchCallReturnCall ==
    /\ pc = "idle"
    /\ fn # NoFunction
    /\ \E n \in CallNodes, oracle \in OracleOutcomes :
         LET r == FetchCallReturn(fn, n, oracle)
         IN  /\ op' = "fetch_call_return"
             /\ node' = n
             /\ fn' = r.self
             /\ err' = r.err
             /\ shape_check' = r.shape_check
             /\ validated' = r.validated
             /\ ret' = r.ret
    /\ warned' = FALSE
    /\ mut' = NoneVal
    /\ NoLocals
    /\ pc' = "returned"
    /\ UNCHANGED origin

\* from_FunctionDef, entered: the keyword arguments from the override flags.
FromFunctionDefBegin ==
    /\ pc = "idle"
    /\ fn = NoFunction
    /\ \E is_immutable \in OptionalBool, is_public \in OptionalBool,
          include_defaults \in BOOLEAN :
         /\ node' = [name |-> "foo", is_immutable |-> is_immutable,
                     is_public |-> is_public, include_defaults |-> include_defaults,
                     decorator_list |-> <<>>, n_args |-> 0, n_defaults |-> 0,
                     args |-> <<>>, defaults |-> <<>>]
         /\ kwargs' = InitialKwargs(is_immutable, is_public)
    /\ op' = "from_FunctionDef"
    /\ pc' = "decorators"
    /\ UNCHANGED <<arg_count, arguments, fn, origin, err, warned, shape_check,
                   validated, ret, mut>>

\* from_FunctionDef, one iteration of the loop over node.decorator_list.
DecoratorStep ==
    /\ pc = "decorators"
    /\ Len(node.decorator_list) < MaxDecorators
    /\ \E decorator \in Decorators :
         LET r == ApplyDecorator(kwargs, decorator)
         IN  /\ node' = [node EXCEPT !.decorator_list = Append(@, decorator)]
             /\ kwargs' = r.kwargs
             /\ warned' = r.warned
             /\ err' = r.err
             /\ pc' = IF r.err = "none" THEN "decorators" ELSE "returned"
    /\ UNCHANGED <<op, arg_count, arguments, fn, origin, shape_check, validated, ret, mut>>

\* from_FunctionDef, after the last decorator: visibility and mutability are
\* resolved and the argument count is taken from the parameter list, which
\* has n parameters, the last k of them with a default.
ResolveStep ==
    /\ pc = "decorators"
    /\ \E n \in 0..MaxArgs : \E k \in 0..n :
         LET r == ResolveModifiers(kwargs)
         IN  IF r.err # "none"
             THEN /\ err' = r.err
                  /\ pc' = "returned"
                  /\ UNCHANGED <<node, kwargs, arg_count>>
             ELSE /\ kwargs' = r.kwargs
                  /\ node' = [node EXCEPT !.n_args = n, !.n_defaults = k]
                  /\ arg_count' = ArgCount(n, k)
                  /\ pc' = "arguments"
                  /\ UNCHANGED err
    /\ UNCHANGED <<op, arguments, fn, origin, warned, shape_check, validated, ret, mut>>

\* from_FunctionDef, one iteration of the loop over the parameters and the
\* defaults paired with them.
ArgStep ==
    /\ pc = "arguments"
    /\ Len(node.args) < node.n_args
    /\ \E arg \in ArgNodes, value \in DefaultExprs \cup {NoExpr} :
         /\ (value # NoExpr) <=> HasDefault(Len(node.args) + 1, node.n_args,
                                             node.n_defaults, node.include_defaults)
         /\ LET r == ProcessArg(arguments, arg, value)
            IN  /\ node' = [node EXCEPT !.args = Append(@, arg),
                                        !.defaults = Append(@, value)]
                /\ arguments' = r.arguments
                /\ err' = r.err
                /\ pc' = IF r.err = "none" THEN "arguments" ELSE "returned"
    /\ UNCHANGED <<op, kwargs, arg_count, fn, origin, warned, shape_check, validated, ret, mut>>

\* from_FunctionDef, after the last parameter: the return type is resolved
\* and the function type constructed.
FinishStep ==
    /\ pc = "arguments"
    /\ Len(node.args) = node.n_args
    /\ \E returns \in Returns :
         LET return_type == ReturnType(returns)
         IN  IF return_type.err # "none"
             THEN /\ err' = return_type.err
                  /\ UNCHANGED <<fn, origin>>
             ELSE /\ fn' = ContractFunctionType(node.name, arguments, arg_count,
                                                return_type.value, kwargs)
                  /\ origin' = "from_FunctionDef"
                  /\ UNCHANGED err
    /\ pc' = "returned"
    /\ UNCHANGED <<op, node, kwargs, arg_count, arguments, warned, shape_check, validated, ret, mut>>

\* The operation has returned or raised: its input, its locals and its
\* result are gone, the function type it constructed or was called on stays.
Return ==
    /\ pc = "returned"
    /\ pc' = "idle"
    /\ op' = "none"
    /\ node' = NoNode
    /\ err' = "none"
    /\ warned' = FALSE
    /\ NoCallRecord
    /\ NoLocals
    /\ UNCHANGED <<fn, origin>>

Next ==
    \/ StateMutabilityFromAbiCall
    \/ FromAbiCall
    \/ FromAnnAssignCall
    \/ FromFunctionDefBegin
    \/ DecoratorStep
    \/ ResolveStep
    \/ ArgStep
    \/ FinishStep
    \/ FetchCallReturnCall
    \/ Return

Spec == Init /\ [][Next]_vars

\* ------------------------------------------------------------- claims
\* The parameter names of the declaration, in declaration order.
DeclaredNames == [i \in 1..Len(node.args) |-> node.args[i].arg]

\* from_FunctionDef has accepted the declaration.
Accepted == op = "from_FunctionDef" /\ pc = "returned" /\ err = "none"

\* C1: a declaration accepted by from_FunctionDef with n parameters, the last
\* k of them with a default, has arg_count n and no kwarg_keys when k = 0, and
\* arg_count (n-k, n) with 0 <= n-k <= n = len(arguments) and kwarg_keys the
\* last k parameter names in declaration order when k >= 1.
ArityOfDeclaration ==
    Accepted =>
        LET n == node.n_args
            k == node.n_defaults
        IN  /\ Len(node.args) = n
            /\ IF k = 0
               THEN /\ fn.arg_count = IntCount(n)
                    /\ fn.kwarg_keys = <<>>
               ELSE /\ fn.arg_count = TupleCount(n - k, n)
                    /\ 0 <= n - k
                    /\ n - k <= n
                    /\ n = Len(fn.arguments)
                    /\ Len(fn.kwarg_keys) = k
                    /\ fn.kwarg_keys = SubSeq(DeclaredNames, n - k + 1, n)

\* A declaration of two parameters, the second with a default, is accepted.
ArityOfDeclarationWitness ==
    /\ Accepted
    /\ node.n_args = 2
    /\ node.n_defaults = 1
    /\ fn.kwarg_keys = <<"b">>

\* arguments[key]: the declared type of the parameter named key.
Lookup(od, key) == od[CHOOSE i \in 1..Len(od) : od[i].key = key].value

\* A call has been validated to the end, or to the error it raised.
Called == op = "fetch_call_return" /\ pc = "returned"

\* C2: for each keyword the call's keyword loop reaches, the value
\* expression supplied is validated against the declared type of the parameter
\* the keyword names, looked up in arguments (against uint256 for gas and
\* value).
KeywordValidatedAgainstDeclaredType ==
    Called =>
        \A j \in 1..Len(node.keywords) :
            Len(node.args) + j <= Len(validated) =>
            validated[Len(node.args) + j] =
                [node |-> node.keywords[j].value,
                 expected |-> IF node.keywords[j].arg \in {"gas", "value"}
                              THEN Uint256Definition
                              ELSE Lookup(fn.arguments, node.keywords[j].arg)]

\* C3: a call of a public function through self raises a call-violation
\* before validate_call_args or any validate_expected_type call; a call not
\* through self is not rejected for visibility and hands validate_call_args
\* kwarg_keys followed by gas and value; a call of a private function
\* through self hands it kwarg_keys alone.
PublicViaSelfRejected ==
    Called =>
        /\ (node.receiver = "self" /\ fn.visibility = "public") =>
               (err = "CallViolation" /\ ~shape_check.called /\ validated = <<>>)
        /\ (node.receiver # "self") =>
               /\ err # "CallViolation"
               /\ shape_check.called
               /\ shape_check.kwarg_keys = fn.kwarg_keys \o <<"gas", "value">>
        /\ (node.receiver = "self" /\ fn.visibility # "public") =>
               /\ shape_check.called
               /\ shape_check.kwarg_keys = fn.kwarg_keys

\* A public function with a positional argument to get wrong is called
\* through self with no argument: the call-violation is what is raised.
PublicViaSelfRejectedWitness ==
    /\ Called
    /\ node.receiver = "self"
    /\ fn.visibility = "public"
    /\ Len(fn.arguments) = 1
    /\ node.args = <<>>
    /\ err = "CallViolation"

\* The keyword argument a decorator sets when it is well formed, or None.
WouldSet(decorator) ==
    IF decorator.kind = "Name" /\ decorator.id \in FunctionVisibility
    THEN "function_visibility"
    ELSE IF decorator.kind = "Name" /\ decorator.id \in StateMutability
    THEN "state_mutability"
    ELSE IF /\ decorator.kind = "Call"
            /\ decorator.id = "nonreentrant"
            /\ Len(decorator.args) = 1
            /\ decorator.args[1].kind = "Str"
    THEN "nonreentrant"
    ELSE NoneVal

\* The decorator list read so far holds the bare name id.
HasNameDecorator(id) ==
    \E i \in 1..Len(node.decorator_list) : node.decorator_list[i] = NameDecorator(id)

\* C4: while from_FunctionDef runs, a keyword argument that is set keeps its
\* value; a decorator that would set one already set (by an earlier decorator
\* or an override flag) makes construction fail; a declaration with both
\* @payable and @view fails.
ModifiersSetAtMostOnce ==
    [][(op = "from_FunctionDef" /\ pc \in {"decorators", "arguments"}) =>
          /\ \A key \in DOMAIN kwargs :
                 key \in DOMAIN kwargs' /\ kwargs'[key] = kwargs[key]
          /\ (Len(node'.decorator_list) > Len(node.decorator_list)) =>
                 LET d == node'.decorator_list[Len(node'.decorator_list)]
                 IN  (WouldSet(d) \in DOMAIN kwargs) =>
                        /\ err' # "none"
                        /\ pc' = "returned"
                        /\ kwargs' = kwargs
                        /\ fn' = NoFunction
          /\ \/ \A i \in 1..Len(node'.decorator_list) :
                    node'.decorator_list[i] # NameDecorator("payable")
             \/ \A i \in 1..Len(node'.decorator_list) :
                    node'.decorator_list[i] # NameDecorator("view")
             \/ err' # "none"
      ]_vars

\* @payable followed by @view has been rejected as a second mutability.
ModifiersSetAtMostOnceWitness ==
    /\ op = "from_FunctionDef"
    /\ pc = "returned"
    /\ node.decorator_list = <<NameDecorator("payable"), NameDecorator("view")>>
    /\ err = "FunctionDeclarationException(Mutability is already set)"
    /\ kwargs["state_mutability"] = "payable"

\* Visibility comes from the is_public flag or from a decorator read so far.
VisibilityDeclared ==
    \/ node.is_public # NoneVal
    \/ \E id \in FunctionVisibility : HasNameDecorator(id)

\* Mutability comes from the is_immutable flag or from a decorator read so far.
MutabilityDeclared ==
    \/ node.is_immutable # NoneVal
    \/ \E id \in StateMutability : HasNameDecorator(id)

\* The errors the decorator loop raises.
DecoratorErrors ==
    {"StructureException(nonreentrant decorator is already set)",
     "StructureException(Decorator is not callable)",
     "StructureException(@nonreentrant name must be given as a single string literal)",
     "FunctionDeclarationException(Visibility is already set)",
     "FunctionDeclarationException(Mutability is already set)",
     "FunctionDeclarationException(Unknown decorator)",
     "StructureException(Bad decorator syntax)"}

\* C5: with visibility set neither by is_public nor by a decorator,
\* from_FunctionDef processes no parameter and constructs nothing, and when the
\* decorator loop raised nothing it fails with the missing-visibility error;
\* with mutability set neither by is_immutable nor by a decorator, the
\* function type constructed is nonpayable.
NoDefaultVisibility ==
    op = "from_FunctionDef" =>
        /\ ~VisibilityDeclared =>
               /\ pc \in {"decorators", "returned"}
               /\ node.args = <<>>
               /\ arguments = <<>>
               /\ fn = NoFunction
               /\ (pc = "returned" /\ err \notin DecoratorErrors) =>
                      err = "FunctionDeclarationException(Visibility must be set)"
        /\ (pc = "returned" /\ err = "none" /\ ~MutabilityDeclared) =>
               fn.mutability = "nonpayable"

\* A declaration decorated with @payable alone has been rejected for its
\* missing visibility.
NoDefaultVisibilityWitness ==
    /\ op = "from_FunctionDef"
    /\ pc = "returned"
    /\ node.is_public = NoneVal
    /\ node.decorator_list = <<NameDecorator("payable")>>
    /\ err = "FunctionDeclarationException(Visibility must be set)"

\* StateMutability.from_abi has returned or raised.
MutabilityDerived == op = "StateMutability.from_abi" /\ pc = "returned"

\* C6: from_abi takes the stateMutability field when the record has one,
\* whatever payable and constant say; else payable when payable is true; else
\* view when constant is true; else nonpayable.
AbiFallbackOrder ==
    MutabilityDerived =>
        IF "stateMutability" \in DOMAIN node
        THEN node["stateMutability"] \in StateMutability =>
                (err = "none" /\ mut = node["stateMutability"])
        ELSE IF "payable" \in DOMAIN node /\ node["payable"]
        THEN err = "none" /\ mut = "payable"
        ELSE IF "constant" \in DOMAIN node /\ node["constant"]
        THEN err = "none" /\ mut = "view"
        ELSE err = "none" /\ mut = "nonpayable"

\* A record that says pure, payable and constant at once yields pure.
AbiFallbackOrderWitness ==
    /\ MutabilityDerived
    /\ DOMAIN node = {"stateMutability", "payable", "constant"}
    /\ node["stateMutability"] = "pure"
    /\ node["payable"]
    /\ node["constant"]
    /\ mut = "pure"

\* C7 as stated: from_abi raises nothing and returns one of the four
\* mutabilities for every record.
AbiNeverFails ==
    MutabilityDerived => (err = "none" /\ mut \in StateMutability)

\* C7 as amended: from_abi raises nothing and returns one of the four
\* mutabilities for every record without a stateMutability field or with one
\* that holds a mutability tag; with any other stateMutability value it
\* raises the enumeration's ValueError.
AbiFailsOnlyOnUnknownTag ==
    MutabilityDerived =>
        IF "stateMutability" \in DOMAIN node /\ node["stateMutability"] \notin StateMutability
        THEN err = "ValueError"
        ELSE err = "none" /\ mut \in StateMutability

\* The record without any field yields nonpayable.
AbiFailsOnlyOnUnknownTagWitness ==
    /\ MutabilityDerived
    /\ DOMAIN node = {}
    /\ err = "none"
    /\ mut = "nonpayable"

\* C8: a function type built by from_FunctionDef has pairwise distinct
\* argument names, none of them gas or value, in arguments and in kwarg_keys;
\* a declaration with a parameter named gas or value is rejected for the
\* name, whatever its annotation; a declaration with two parameters of one
\* name is rejected.
ArgumentNamesDistinctUnreserved ==
    /\ origin = "from_FunctionDef" =>
          /\ \A i, j \in 1..Len(fn.arguments) :
                 fn.arguments[i].key = fn.arguments[j].key => i = j
          /\ \A i \in 1..Len(fn.arguments) : fn.arguments[i].key \notin {"gas", "value"}
          /\ \A i \in 1..Len(fn.kwarg_keys) : fn.kwarg_keys[i] \notin {"gas", "value"}
    /\ op = "from_FunctionDef" =>
          /\ (\E i \in 1..Len(node.args) : node.args[i].arg \in {"gas", "value"}) =>
                 /\ pc = "returned"
                 /\ err = "ArgumentException(Cannot use as a variable name)"
                 /\ fn = NoFunction
          /\ (\E i, j \in 1..Len(node.args) :
                 i # j /\ node.args[i].arg = node.args[j].arg) =>
                 /\ pc = "returned"
                 /\ err # "none"
                 /\ fn = NoFunction

\* A parameter named value, without annotation, has been rejected for its name.
ArgumentNamesDistinctUnreservedWitness ==
    /\ op = "from_FunctionDef"
    /\ pc = "returned"
    /\ Len(node.args) = 2
    /\ node.args[2] = [arg |-> "value", annotation |-> NoneVal]
    /\ err = "ArgumentException(Cannot use as a variable name)"

\* arg0, arg1, ... as literals.
AccessorNames == <<"arg0", "arg1", "arg2", "arg3">>

\* C9: a function type built by from_abi or from_AnnAssign has an integer
\* arg_count equal to the number of entries of arguments, no kwarg_keys, public
\* visibility and no reentrancy lock; the accessor's argument names are
\* arg0..arg(n-1), n the number of argument types of the signature.
UndeclaredHaveExactArity ==
    /\ origin \in {"from_abi", "from_AnnAssign"} =>
          /\ fn.arg_count.kind = "int"
          /\ fn.arg_count.lo = Len(fn.arguments)
          /\ fn.kwarg_keys = <<>>
          /\ fn.visibility = "public"
          /\ fn.nonreentrant = NoneVal
    /\ (op = "from_AnnAssign" /\ pc = "returned" /\ err = "none") =>
          Keys(fn.arguments) = SubSeq(AccessorNames, 1, Len(node.type.arguments))

\* An ABI record with two inputs of one name yields one argument and arity 1.
UndeclaredHaveExactArityWitness ==
    /\ op = "from_abi"
    /\ pc = "returned"
    /\ origin = "from_abi"
    /\ Len(node["inputs"]) = 2
    /\ Len(fn.arguments) = 1
    /\ fn.arg_count = IntCount(1)

\* C10: a fetch_call_return call, whatever its receiver and outcome, leaves
\* the function type as it was; a call through self is never checked against
\* keyword keys that hold gas or value.
CallLeavesFunctionUnchanged ==
    [][(pc = "idle" /\ op' = "fetch_call_return") =>
          /\ fn' = fn
          /\ origin' = origin
          /\ (node'.receiver = "self" /\ shape_check'.called) =>
                 \A i \in 1..Len(shape_check'.kwarg_keys) :
                    shape_check'.kwarg_keys[i] \notin {"gas", "value"}
      ]_vars

\* A call not through self, with gas given by keyword, of a function that
\* has keyword keys of its own, has passed.
CallLeavesFunctionUnchangedWitness ==
    /\ Called
    /\ node.receiver = "token"
    /\ Len(node.keywords) = 1
    /\ node.keywords[1].arg = "gas"
    /\ err = "none"
    /\ fn.kwarg_keys = <<"b">>

====
